---- MODULE Spec2Model ----
(***************************************************************************)
(* Iteration state store (file-backed StateManager and Redis-backed        *)
(* RedisStateManager) and the stuck-loop detector of the coding agents.    *)
(*                                                                         *)
(* Spec drives one of the two stores with calls, persistence faults and    *)
(* key expiry; SpecLockstep drives both stores with the same calls so that *)
(* their answers can be compared; SpecDetect runs the detector on a record *)
(* whose review_history grows; SpecSimilarity applies the similarity      *)
(* score to two texts; SpecDecide applies the outcome decision of the      *)
(* reviewer to the findings of one review; SpecGate runs process-issue and *)
(* apply-feedback on one issue; SpecReview runs review_pull_request once,  *)
(* from the CI reports to the result; SpecConcurrent interleaves the       *)
(* update_state calls of two processes working on different items.         *)
(***************************************************************************)
EXTENDS Integers, Sequences, FiniteSets, TLC

(***************************************************************************)
(* Bounds of the model.                                                    *)
(***************************************************************************)
MaxClock == 2        \* datetime.utcnow() takes the values 1..MaxClock
MaxCompleted == 5    \* runs of the code agent on one issue that reach their end
MaxEnvEvents == 1    \* persistence faults and key expiries injected per run
MaxFindings == 2     \* findings of one category in one review
MaxHistory == 4      \* reviews of one work item
MaxIteration == 6    \* highest iteration a run may start, forced runs included
MaxOps == 2          \* update_state calls one process makes
MaxTextLen == 3      \* characters of a text handed to _calculate_similarity
MaxUpdates == 2      \* number of keyword arguments of one update_state call

(***************************************************************************)
(* Values.  None of an Optional[int] / Optional[datetime] is 0: issue and  *)
(* pull request numbers and the clock all start at 1.                      *)
(***************************************************************************)
None == 0
Ids == {1, 2}

StatusLiteral == {"pending", "in_progress", "completed", "failed", "stuck"}

FieldNames ==
    {"issue_number", "pr_number", "iteration", "status", "errors",
     "fixes_attempted", "review_history", "started_at", "updated_at",
     "completed_at", "metadata"}

\* AgentState(issue_number=n) constructed at time now
AgentState(n, now) ==
    [issue_number    |-> n,
     pr_number       |-> None,
     iteration       |-> 1,
     status          |-> "pending",
     errors          |-> <<>>,
     fixes_attempted |-> <<>>,
     review_history  |-> <<>>,
     started_at      |-> now,
     updated_at      |-> now,
     completed_at    |-> None,
     metadata        |-> <<>>]

\* one review snapshot as the reviewer stores it (a dict)
Snap(blocking, nonblocking) ==
    [blocking_issues     |-> blocking,
     non_blocking_issues |-> nonblocking,
     quality_score       |-> 7,
     timestamp           |-> 1]

\* the issue text "e"
IssueE == <<"e">>
SnapE == Snap(<<IssueE>>, <<>>)

(***************************************************************************)
(* Serialisation.  model_dump(mode="json") / model_dump_json() write a     *)
(* datetime as an ISO string (here the one-element tuple <<t>>) and None   *)
(* as null (here <<>>); a value that does not fit the declared type, such  *)
(* as a status outside the Literal, is written as it is.                   *)
(***************************************************************************)
IsoFormat(t) == IF t = None THEN <<>> ELSE <<t>>
FromIso(j) == IF j = <<>> THEN None ELSE j[1]

model_dump(state) ==
    [state EXCEPT !.started_at   = IsoFormat(state.started_at),
                  !.updated_at   = IsoFormat(state.updated_at),
                  !.completed_at = IsoFormat(state.completed_at)]

\* AgentState(**state_dict): pydantic validation of the parsed document
Validates(doc) == doc.status \in StatusLiteral

ParseAgentState(doc) ==
    [doc EXCEPT !.started_at   = FromIso(doc.started_at),
                !.updated_at   = FromIso(doc.updated_at),
                !.completed_at = FromIso(doc.completed_at)]

NullDoc == model_dump(AgentState(0, 0))
NullState == AgentState(0, 0)

(***************************************************************************)
(* Persistence media.                                                      *)
(*   file:  issue-<n>.json; complete = FALSE is a file that open(.., "w")  *)
(*          truncated and json.dump did not finish writing.                *)
(*   redis: key state:<repo>:issue:<n>, here the pair <<repo, n>>; ex is   *)
(*          the time-to-live the key was written with.                     *)
(***************************************************************************)
ttl == 7 * 86400

\* the repository of this RedisStateManager, and one of another manager
repository == "own/repo"
OtherRepository == "other/repo"
RedisKeys == {repository, OtherRepository} \X Ids

get_key(n) == <<repository, n>>

NoFile == [exists |-> FALSE, complete |-> FALSE, doc |-> NullDoc]
FullFile(doc) == [exists |-> TRUE, complete |-> TRUE, doc |-> doc]
TruncatedFile == [exists |-> TRUE, complete |-> FALSE, doc |-> NullDoc]

NoKey == [exists |-> FALSE, doc |-> NullDoc, ex |-> 0]
RedisSet(doc, ex) == [exists |-> TRUE, doc |-> doc, ex |-> ex]

(***************************************************************************)
(* Results of a call, as the caller sees them.                             *)
(***************************************************************************)
Returned(state) == [kind |-> "state", state |-> state, err |-> "", ids |-> <<>>, flag |-> FALSE]
ReturnedNone == [kind |-> "none", state |-> NullState, err |-> "", ids |-> <<>>, flag |-> FALSE]
ReturnedBool(b) == [kind |-> "bool", state |-> NullState, err |-> "", ids |-> <<>>, flag |-> b]
ReturnedIds(s) == [kind |-> "ids", state |-> NullState, err |-> "", ids |-> s, flag |-> FALSE]
Raised(e) == [kind |-> "raise", state |-> NullState, err |-> e, ids |-> <<>>, flag |-> FALSE]
NoResult == [kind |-> "init", state |-> NullState, err |-> "", ids |-> <<>>, flag |-> FALSE]

VARIABLES
    file,       \* file-backed store: issue number -> file content
    redis,      \* shared store: issue number -> key content
    clock,      \* datetime.utcnow()
    call,       \* the call under way, Idle between two calls
    backend,    \* the store(s) the caller uses: "file", "redis" or "both"
    fres,       \* what the file-backed store answered
    rres,       \* what the shared store answered
    envEvents,  \* persistence faults and expiries injected so far
    history,    \* review_history of the record handed to the detector
    verdict,    \* what StateManager.detect_stuck_loop answered
    verdictBase, \* what StateManagerBase.detect_stuck_loop answered
    textA,      \* first argument of _calculate_similarity
    textB,      \* second argument of _calculate_similarity
    similarity, \* _calculate_similarity(textA, textB)
    similaritySwapped, \* _calculate_similarity(textB, textA)
    decideArgs, \* categorized_failures, requirements_fulfilled and two diff analyses
    outcome,    \* the outcomes determined with the first diff analysis
    outcomeOther, \* the outcomes determined with the other diff analysis
    prOpen,     \* an open pull request is linked to the issue
    prLabels,   \* labels of that pull request
    attempt,    \* the last process-issue or apply-feedback run
    runsCompleted, \* runs on the issue that reached their update_state
    forceUsed,  \* some run so far was started with --force
    reviewCall, \* the last review_pull_request call and what happened in it
    posted,     \* what that call put on the pull request, in order
    reviewResult, \* the ReviewResult it returned
    procs,      \* per process: where it is in its update_state call and its local state
    solo        \* per process: the stores as they would be had it run alone

vars == <<file, redis, clock, backend, call, fres, rres, envEvents,
          history, verdict, verdictBase,
          textA, textB, similarity, similaritySwapped,
          decideArgs, outcome, outcomeOther,
          prOpen, prLabels, attempt, runsCompleted, forceUsed,
          reviewCall, posted, reviewResult, procs, solo>>

storeVars == <<file, redis, clock, backend, call, fres, rres, envEvents>>
detectVars == <<history, verdict, verdictBase>>
similarityVars == <<textA, textB, similarity, similaritySwapped>>

decideVars == <<decideArgs, outcome, outcomeOther>>
gateVars == <<prOpen, prLabels, attempt, runsCompleted, forceUsed>>
reviewVars == <<reviewCall, posted, reviewResult>>
concurrentVars == <<procs, solo>>

\* the variables that a call on the store, the detector, the similarity and
\* the outcome decision, a run of the code agent and a review leave alone
outsideStore == <<concurrentVars, detectVars, similarityVars, decideVars, gateVars, reviewVars>>
outsideDetect == <<concurrentVars, storeVars, similarityVars, decideVars, gateVars, reviewVars>>
outsideSimilarity == <<concurrentVars, storeVars, detectVars, decideVars, gateVars, reviewVars>>
outsideDecide == <<concurrentVars, storeVars, detectVars, similarityVars, gateVars, reviewVars>>
\* a run of the code agent writes the file-backed store and nothing else here
outsideGate == <<redis, clock, backend, call, fres, rres, envEvents,
                 detectVars, similarityVars, decideVars, reviewVars, concurrentVars>>
outsideReview == <<storeVars, detectVars, similarityVars, decideVars, gateVars, concurrentVars>>
\* concurrent update_state calls write the stores and nothing else here
outsideConcurrent == <<clock, backend, call, fres, rres, envEvents,
                       detectVars, similarityVars, decideVars, gateVars, reviewVars>>

(***************************************************************************)
(* Arguments of the calls.                                                 *)
(***************************************************************************)
UpdateKeys == {"status", "iteration", "review_history", "issue_number", "bogus_field"}

UpdateValues(key) ==
    CASE key = "status"         -> {"completed", "bogus"}
      [] key = "iteration"      -> {0}
      [] key = "review_history" -> {<<>>}
      [] key = "issue_number"   -> Ids
      [] key = "bogus_field"    -> {1}

KeywordArgs == UNION {{[key |-> k, value |-> v] : v \in UpdateValues(k)} : k \in UpdateKeys}

\* **updates: a mapping, iterated in the order the caller wrote it
UpdateArgs ==
    {u \in UNION {[1..k -> KeywordArgs] : k \in 0..MaxUpdates} :
        \A i, j \in DOMAIN u : i # j => u[i].key # u[j].key}

\* records a caller may hand to save_state
SaveArgs ==
    {[AgentState(n, 1) EXCEPT !.review_history = <<SnapE>>] : n \in Ids}

FileFaults == {"none", "open", "write"}
RedisFaults == {"none", "set"}

(***************************************************************************)
(* hasattr / setattr on an AgentState: pydantic does not validate on       *)
(* assignment, so any value is stored under a field name.                  *)
(***************************************************************************)
hasattr(state, key) == key \in DOMAIN state

setattr(state, key, value) == [state EXCEPT ![key] = value]

\* a loop that skips an unknown name instead of raising
RECURSIVE ApplyUpdatesSkipUnknown(_, _)
ApplyUpdatesSkipUnknown(state, updates) ==
    IF Len(updates) = 0 THEN [ok |-> TRUE, state |-> state]
    ELSE IF ~hasattr(state, Head(updates).key)
         THEN ApplyUpdatesSkipUnknown(state, Tail(updates))
    ELSE ApplyUpdatesSkipUnknown(
             setattr(state, Head(updates).key, Head(updates).value), Tail(updates))

\* for key, value in updates.items(): ... raise ValueError / setattr
RECURSIVE ApplyUpdates(_, _)
ApplyUpdates(state, updates) ==
    IF Len(updates) = 0 THEN [ok |-> TRUE, state |-> state]
    ELSE IF ~hasattr(state, Head(updates).key) THEN [ok |-> FALSE, state |-> state]
    ELSE ApplyUpdates(setattr(state, Head(updates).key, Head(updates).value), Tail(updates))

InvalidField == "ValueError: Invalid field for AgentState"

(***************************************************************************)
(* File-backed StateManager.                                               *)
(***************************************************************************)
load_state(f, n) ==
    IF ~f[n].exists THEN ReturnedNone
    ELSE IF ~f[n].complete THEN Raised("ValueError: Corrupted state file")
    ELSE IF ~Validates(f[n].doc) THEN Raised("ValidationError")
    ELSE Returned(ParseAgentState(f[n].doc))

\* open(file_path, "w") truncates the file before json.dump writes to it
FileSaveState(f, state, now, fault) ==
    LET s == [state EXCEPT !.updated_at = now]
        n == s.issue_number
    IN  CASE fault = "open"  -> [store |-> f, res |-> Raised("OSError"), state |-> s]
          [] fault = "write" -> [store |-> [f EXCEPT ![n] = TruncatedFile],
                                 res |-> Raised("OSError"), state |-> s]
          [] OTHER           -> [store |-> [f EXCEPT ![n] = FullFile(model_dump(s))],
                                 res |-> ReturnedNone, state |-> s]

FileUpdateState(f, n, updates, now, fault) ==
    LET loaded == load_state(f, n) IN
    IF loaded.kind = "raise" THEN [store |-> f, res |-> loaded]
    ELSE
      LET state0 == IF loaded.kind = "none" THEN AgentState(n, now) ELSE loaded.state
          applied == ApplyUpdates(state0, updates)
      IN  IF ~applied.ok THEN [store |-> f, res |-> Raised(InvalidField)]
          ELSE
            LET saved == FileSaveState(f, applied.state, now, fault) IN
            [store |-> saved.store,
             res |-> IF saved.res.kind = "raise" THEN saved.res ELSE Returned(saved.state)]

FileDeleteState(f, n) ==
    IF f[n].exists THEN [store |-> [f EXCEPT ![n] = NoFile], res |-> ReturnedBool(TRUE)]
    ELSE [store |-> f, res |-> ReturnedBool(FALSE)]

\* issue_numbers.sort() / sorted(issue_numbers)
RECURSIVE Insert(_, _)
Insert(x, sorted) ==
    IF sorted = <<>> THEN <<x>>
    ELSE IF x <= Head(sorted) THEN <<x>> \o sorted
    ELSE <<Head(sorted)>> \o Insert(x, Tail(sorted))

\* a listing that is returned in the order it was enumerated
Unsorted(seq) == seq

RECURSIVE Sort(_)
Sort(seq) == IF seq = <<>> THEN <<>> ELSE Insert(Head(seq), Sort(Tail(seq)))

\* the orders in which glob() / KEYS may enumerate a set of names
Enumerations(S) ==
    {q \in [1..Cardinality(S) -> S] : \A i, j \in DOMAIN q : i # j => q[i] # q[j]}

FileNamesOf(f) == {n \in DOMAIN f : f[n].exists}

list_all_states(globbed) == ReturnedIds(Sort(globbed))

(***************************************************************************)
(* RedisStateManager (update_state is inherited from StateManagerBase).    *)
(***************************************************************************)
get_state(r, n) ==
    LET data == r[get_key(n)] IN
    IF ~data.exists THEN ReturnedNone
    ELSE IF ~Validates(data.doc) THEN ReturnedNone
    ELSE Returned(ParseAgentState(data.doc))

\* redis.set(key, state_json, ex=self.ttl) is one atomic command
RedisSaveState(r, state, now, fault) ==
    LET s == [state EXCEPT !.updated_at = now]
        key == get_key(s.issue_number)
    IN  IF fault = "set"
        THEN [store |-> r, res |-> Raised("ConnectionError"), state |-> s]
        ELSE [store |-> [r EXCEPT ![key] = RedisSet(model_dump(s), ttl)],
              res |-> ReturnedNone, state |-> s]

BaseUpdateState(r, n, updates, now, fault) ==
    LET loaded == get_state(r, n)
        state0 == IF loaded.kind = "none" THEN AgentState(n, now) ELSE loaded.state
        applied == ApplyUpdates(state0, updates)
    IN  IF ~applied.ok THEN [store |-> r, res |-> Raised(InvalidField)]
        ELSE
          LET stamped == [applied.state EXCEPT !.updated_at = now]
              saved == RedisSaveState(r, stamped, now, fault)
          IN  [store |-> saved.store,
               res |-> IF saved.res.kind = "raise" THEN saved.res ELSE Returned(saved.state)]

RedisDeleteState(r, n) ==
    IF r[get_key(n)].exists
    THEN [store |-> [r EXCEPT ![get_key(n)] = NoKey], res |-> ReturnedBool(TRUE)]
    ELSE [store |-> r, res |-> ReturnedBool(FALSE)]

\* redis.keys("state:<repository>:issue:*")
KeysMatching(r, repo) == {k \in DOMAIN r : r[k].exists /\ k[1] = repo}

\* int(key.decode().split(":")[-1]) for each key, then sorted()
list_active_issues(keys) == ReturnedIds(Sort([i \in DOMAIN keys |-> keys[i][2]]))

(***************************************************************************)
(* Similarity of two texts.  A text is a sequence of characters.           *)
(***************************************************************************)
Whitespace == {" ", "\t"}

Lower(c) == CASE c = "A" -> "a" [] c = "B" -> "b" [] c = "C" -> "c" [] OTHER -> c

\* text.split(): the maximal runs of non-whitespace characters
RECURSIVE Split(_, _, _)
Split(text, word, words) ==
    IF Len(text) = 0 THEN (IF Len(word) = 0 THEN words ELSE Append(words, word))
    ELSE IF Head(text) \in Whitespace
         THEN Split(Tail(text), <<>>, IF Len(word) = 0 THEN words ELSE Append(words, word))
    ELSE Split(Tail(text), Append(word, Head(text)), words)

\* sep.join(words)
RECURSIVE Join(_, _)
Join(sep, words) ==
    IF Len(words) = 0 THEN <<>>
    ELSE IF Len(words) = 1 THEN words[1]
    ELSE words[1] \o sep \o Join(sep, Tail(words))

\* " ".join(text.split()).lower()
Normalized(text) ==
    LET joined == Join(<<" ">>, Split(text, <<>>, <<>>))
    IN  [i \in 1..Len(joined) |-> Lower(joined[i])]

\* length of the common run of a from i and b from j, below ahi and bhi
RECURSIVE RunLength(_, _, _, _, _, _)
RunLength(a, b, i, j, ahi, bhi) ==
    IF i < ahi /\ j < bhi /\ a[i] = b[j]
    THEN 1 + RunLength(a, b, i + 1, j + 1, ahi, bhi)
    ELSE 0

\* SequenceMatcher.find_longest_match(alo, ahi, blo, bhi) with no junk (texts
\* are shorter than the 200 characters at which autojunk sets in): the longest
\* block, the earliest in a and then the earliest in b among the longest.
\* Positions are 1-based and ahi, bhi are exclusive.
find_longest_match(a, b, alo, ahi, blo, bhi) ==
    LET starts == (alo..(ahi - 1)) \X (blo..(bhi - 1))
        size(p) == RunLength(a, b, p[1], p[2], ahi, bhi)
        longest == {p \in starts : \A q \in starts : size(q) <= size(p)}
        best == CHOOSE p \in longest :
                    \A q \in longest : p[1] < q[1] \/ (p[1] = q[1] /\ p[2] <= q[2])
    IN  IF starts = {} THEN [i |-> alo, j |-> blo, size |-> 0]
        ELSE IF size(best) = 0 THEN [i |-> alo, j |-> blo, size |-> 0]
        ELSE [i |-> best[1], j |-> best[2], size |-> size(best)]

\* sum of the sizes of SequenceMatcher.get_matching_blocks()
RECURSIVE MatchingSize(_, _, _, _, _, _)
MatchingSize(a, b, alo, ahi, blo, bhi) ==
    LET m == find_longest_match(a, b, alo, ahi, blo, bhi) IN
    IF m.size = 0 THEN 0
    ELSE m.size
         + (IF alo < m.i /\ blo < m.j
            THEN MatchingSize(a, b, alo, m.i, blo, m.j) ELSE 0)
         + (IF m.i + m.size < ahi /\ m.j + m.size < bhi
            THEN MatchingSize(a, b, m.i + m.size, ahi, m.j + m.size, bhi) ELSE 0)

\* a ratio that is 0 for two empty sequences
RatioZeroWhenEmpty(a, b) ==
    IF Len(a) + Len(b) = 0 THEN [num |-> 0, den |-> 1]
    ELSE [num |-> 2 * MatchingSize(a, b, 1, Len(a) + 1, 1, Len(b) + 1),
          den |-> Len(a) + Len(b)]

\* SequenceMatcher(None, a, b).ratio() as the fraction num / den
ratio(a, b) ==
    IF Len(a) + Len(b) = 0 THEN [num |-> 1, den |-> 1]
    ELSE [num |-> 2 * MatchingSize(a, b, 1, Len(a) + 1, 1, Len(b) + 1),
          den |-> Len(a) + Len(b)]

calculate_similarity(text1, text2) ==
    IF Len(text1) = 0 \/ Len(text2) = 0 THEN [num |-> 0, den |-> 1]
    ELSE ratio(Normalized(text1), Normalized(text2))

(***************************************************************************)
(* Stuck-loop detection.                                                   *)
(***************************************************************************)
\* a threshold of 90%
SimilarityThresholdStricter == [num |-> 9, den |-> 10]

SIMILARITY_THRESHOLD == [num |-> 7, den |-> 10]

\* a window that is one review too short
StuckCheckWindowTooShort == 3 - 1

STUCK_CHECK_WINDOW == 3

\* similarity >= self.SIMILARITY_THRESHOLD
AtLeastThreshold(sim) ==
    sim.num * SIMILARITY_THRESHOLD.den >= SIMILARITY_THRESHOLD.num * sim.den

Verdict(stuck, reason) == [kind |-> "return", stuck |-> stuck, reason |-> reason]
VerdictRaised(e) == [kind |-> "raise", stuck |-> FALSE, reason |-> e]
NoVerdict == [kind |-> "init", stuck |-> FALSE, reason |-> ""]

\* review_history[-STUCK_CHECK_WINDOW:]
RecentReviews(review_history) ==
    LET n == Len(review_history)
        from == IF n > STUCK_CHECK_WINDOW THEN n - STUCK_CHECK_WINDOW + 1 ELSE 1
    IN  SubSeq(review_history, from, n)

\* review.get(key, []): the value under key, [] when the dict lacks the key
DictGet(review, key) == IF key \in DOMAIN review THEN review[key] ELSE <<>>

\* the value under key is null (listed in nulls): blocking + non_blocking then
\* raises TypeError, None and a list cannot be concatenated
IsNull(review, key) == "nulls" \in DOMAIN review /\ key \in review.nulls

RaisesInLoop(reviews) ==
    \E i \in DOMAIN reviews :
        IsNull(reviews[i], "blocking_issues") \/ IsNull(reviews[i], "non_blocking_issues")

\* " ".join(blocking + non_blocking) of every review that has an issue
RECURSIVE ErrorSummaries(_)
ErrorSummaries(reviews) ==
    IF Len(reviews) = 0 THEN <<>>
    ELSE LET all_issues == DictGet(Head(reviews), "blocking_issues")
                               \o DictGet(Head(reviews), "non_blocking_issues")
         IN  (IF Len(all_issues) = 0 THEN <<>> ELSE <<Join(<<" ">>, all_issues)>>)
             \o ErrorSummaries(Tail(reviews))

\* the consecutive pairs (i, i + 1) whose similarity reaches the threshold
SimilarPairs(error_summaries) ==
    {i \in 1..(Len(error_summaries) - 1) :
        AtLeastThreshold(calculate_similarity(error_summaries[i], error_summaries[i + 1]))}

\* sum(similarity(first, err) for err in rest) / len(rest) >= threshold
RECURSIVE SumOfSimilarities(_, _)
SumOfSimilarities(first, rest) ==
    IF Len(rest) = 0 THEN [num |-> 0, den |-> 1]
    ELSE LET s == calculate_similarity(first, Head(rest))
             t == SumOfSimilarities(first, Tail(rest))
         IN  [num |-> s.num * t.den + t.num * s.den, den |-> s.den * t.den]

AverageAtLeastThreshold(error_summaries) ==
    LET total == SumOfSimilarities(error_summaries[1], Tail(error_summaries))
    IN  AtLeastThreshold([num |-> total.num, den |-> total.den * (Len(error_summaries) - 1)])

\* a detector that is content with one similar pair
DetectStuckOnOnePair(state) ==
    IF Len(state.review_history) < STUCK_CHECK_WINDOW THEN Verdict(FALSE, "")
    ELSE IF RaisesInLoop(RecentReviews(state.review_history)) THEN Verdict(FALSE, "")
    ELSE
      LET error_summaries == ErrorSummaries(RecentReviews(state.review_history)) IN
      IF Len(error_summaries) < 2 THEN Verdict(FALSE, "")
      ELSE IF Cardinality(SimilarPairs(error_summaries)) >= 1
           THEN Verdict(TRUE, "Detected repeating error pattern")
      ELSE IF Len(error_summaries) = STUCK_CHECK_WINDOW
                /\ AverageAtLeastThreshold(error_summaries)
           THEN Verdict(TRUE, "Same errors repeating across all recent reviews")
      ELSE Verdict(FALSE, "")

\* StateManager.detect_stuck_loop: the reviews are dicts read with .get();
\* whatever is raised inside the try block ends in return False, ""
detect_stuck_loop(state) ==
    IF Len(state.review_history) < STUCK_CHECK_WINDOW THEN Verdict(FALSE, "")
    ELSE IF RaisesInLoop(RecentReviews(state.review_history)) THEN Verdict(FALSE, "")
    ELSE
      LET error_summaries == ErrorSummaries(RecentReviews(state.review_history)) IN
      IF Len(error_summaries) < 2 THEN Verdict(FALSE, "")
      ELSE IF Cardinality(SimilarPairs(error_summaries)) >= 2
           THEN Verdict(TRUE, "Detected repeating error pattern")
      ELSE IF Len(error_summaries) = STUCK_CHECK_WINDOW
                /\ AverageAtLeastThreshold(error_summaries)
           THEN Verdict(TRUE, "Same errors repeating across all recent reviews")
      ELSE Verdict(FALSE, "")

\* StateManagerBase.detect_stuck_loop reads review.blocking_issues, an
\* attribute a dict does not have, outside any try block
BaseDetectStuckLoop(state) ==
    IF Len(state.review_history) < STUCK_CHECK_WINDOW THEN Verdict(FALSE, "")
    ELSE VerdictRaised("AttributeError")

(***************************************************************************)
(* Review outcome decision.  A formatted message is the record of its      *)
(* fixed text and the numbers put into it; quality scores are counted in   *)
(* tenths (10.0 is 100, a deduction of 0.5 is 5).                          *)
(***************************************************************************)
Message(text, n, of) == [text |-> text, n |-> n, of |-> of]

\* len([e for e in entries if e.get("severity") == severity])
CountSeverity(entries, severity) ==
    Cardinality({i \in DOMAIN entries :
        "severity" \in DOMAIN entries[i] /\ entries[i].severity = severity})

\* sum(requirements_fulfilled.values())
Fulfilled(requirements_fulfilled) ==
    Cardinality({r \in DOMAIN requirements_fulfilled : requirements_fulfilled[r]})

Max(a, b) == IF a >= b THEN a ELSE b
Min(a, b) == IF a <= b THEN a ELSE b

\* a blocking row that leaves approve as it is
BlockKeepingApprove(o, entry, delta) ==
    [o EXCEPT !.blocking_issues = Append(@, entry), !.quality_score = @ - delta]

\* approve = False; blocking_issues.append(entry); quality_score -= delta
Block(o, entry, delta) ==
    [o EXCEPT !.approve = FALSE,
              !.blocking_issues = Append(@, entry),
              !.quality_score = @ - delta]

\* non_blocking_issues.append(entry); quality_score -= delta
Warn(o, entry, delta) ==
    [o EXCEPT !.non_blocking_issues = Append(@, entry), !.quality_score = @ - delta]

\* a deduction of 0.5 for every potential issue
ExtendPerIssue(o, potential_issues) ==
    [o EXCEPT !.non_blocking_issues = @ \o potential_issues,
              !.quality_score = @ - 5 * Len(potential_issues)]

\* non_blocking_issues.extend(potential_issues); quality_score -= 0.5
Extend(o, potential_issues) ==
    [o EXCEPT !.non_blocking_issues = @ \o potential_issues, !.quality_score = @ - 5]

\* a score that is not brought back into the range
Unclamped(quality_score) == quality_score

\* max(0.0, min(10.0, quality_score))
Clamp(quality_score) == Max(0, Min(100, quality_score))

\* ReviewerOrchestrator._determine_outcome
OrchestratorDetermineOutcome(categorized_failures, requirements_fulfilled, diff_analysis) ==
    LET test_failures == DictGet(categorized_failures, "tests")
        lint_errors == DictGet(categorized_failures, "lint")
        error_count == CountSeverity(lint_errors, "error")
        type_errors == DictGet(categorized_failures, "types")
        security_issues == DictGet(categorized_failures, "security")
        high_severity_security == CountSeverity(security_issues, "HIGH")
        dep_vulns == DictGet(categorized_failures, "dependencies")
        total_reqs == Cardinality(DOMAIN requirements_fulfilled)
        fulfilled == Fulfilled(requirements_fulfilled)
        potential_issues == DictGet(diff_analysis, "potential_issues")
        o0 == [approve |-> TRUE, blocking_issues |-> <<>>,
               non_blocking_issues |-> <<>>, quality_score |-> 100]
        o1 == IF Len(test_failures) > 0
              THEN Block(o0, Message("Tests failing", Len(test_failures), 0), 30)
              ELSE o0
        o2 == IF Len(lint_errors) = 0 THEN o1
              ELSE IF error_count > 0
                   THEN Block(o1, Message("Linting errors", error_count, 0), 20)
              ELSE Warn(o1, Message("Linting warnings", Len(lint_errors), 0), 5)
        o3 == IF Len(type_errors) > 0
              THEN Block(o2, Message("Type errors", Len(type_errors), 0), 20)
              ELSE o2
        o4 == IF high_severity_security > 0
              THEN Block(o3, Message("High-severity security issues",
                                     high_severity_security, 0), 30)
              ELSE IF Len(security_issues) > 0
                   THEN Warn(o3, Message("Security concerns", Len(security_issues), 0), 10)
              ELSE o3
        o5 == IF Len(dep_vulns) > 0
              THEN Warn(o4, Message("Dependency vulnerabilities", Len(dep_vulns), 0), 5)
              ELSE o4
        o6 == IF total_reqs > 0 /\ fulfilled < total_reqs
              THEN Block(o5, Message("Requirements not met",
                                     total_reqs - fulfilled, total_reqs), 20)
              ELSE o5
        o7 == IF Len(potential_issues) > 0 THEN Extend(o6, potential_issues) ELSE o6
    IN  [o7 EXCEPT !.quality_score = Clamp(@)]

\* determine_outcome of reviewer.py, the same rules written a second time
determine_outcome(categorized_failures, requirements_fulfilled, diff_analysis) ==
    LET test_failures == DictGet(categorized_failures, "tests")
        lint_errors == DictGet(categorized_failures, "lint")
        error_count == CountSeverity(lint_errors, "error")
        type_errors == DictGet(categorized_failures, "types")
        security_issues == DictGet(categorized_failures, "security")
        high_severity_security == CountSeverity(security_issues, "HIGH")
        dep_vulns == DictGet(categorized_failures, "dependencies")
        total_reqs == Cardinality(DOMAIN requirements_fulfilled)
        fulfilled == Fulfilled(requirements_fulfilled)
        potential_issues == DictGet(diff_analysis, "potential_issues")
        o0 == [approve |-> TRUE, blocking_issues |-> <<>>,
               non_blocking_issues |-> <<>>, quality_score |-> 100]
        o1 == IF Len(test_failures) > 0
              THEN Block(o0, Message("Tests failing", Len(test_failures), 0), 30)
              ELSE o0
        o2 == IF Len(lint_errors) = 0 THEN o1
              ELSE IF error_count > 0
                   THEN Block(o1, Message("Linting errors", error_count, 0), 20)
              ELSE Warn(o1, Message("Linting warnings", Len(lint_errors), 0), 5)
        o3 == IF Len(type_errors) > 0
              THEN Block(o2, Message("Type errors", Len(type_errors), 0), 20)
              ELSE o2
        o4 == IF high_severity_security > 0
              THEN Block(o3, Message("High-severity security issues",
                                     high_severity_security, 0), 30)
              ELSE IF Len(security_issues) > 0
                   THEN Warn(o3, Message("Security concerns", Len(security_issues), 0), 10)
              ELSE o3
        o5 == IF Len(dep_vulns) > 0
              THEN Warn(o4, Message("Dependency vulnerabilities", Len(dep_vulns), 0), 5)
              ELSE o4
        o6 == IF total_reqs > 0 /\ fulfilled < total_reqs
              THEN Block(o5, Message("Requirements not met",
                                     total_reqs - fulfilled, total_reqs), 20)
              ELSE o5
        o7 == IF Len(potential_issues) > 0 THEN Extend(o6, potential_issues) ELSE o6
    IN  [o7 EXCEPT !.quality_score = Clamp(@)]

(***************************************************************************)
(* The calls, made on every store in use.                                  *)
(***************************************************************************)
Call(op, n, updates, state, ffault, rfault) ==
    [op |-> op, id |-> n, updates |-> updates, state |-> state,
     ffault |-> ffault, rfault |-> rfault]

\* no call is under way: the caller is between two calls
Idle == Call("idle", 0, <<>>, NullState, "none", "none")

\* the store is in use / is the only one in use
Active(b) == backend \in {b, "both"}

Faults(ffault, rfault) ==
    (IF ffault = "none" THEN 0 ELSE 1) + (IF rfault = "none" THEN 0 ELSE 1)

FaultsAllowed(ffault, rfault) ==
    /\ envEvents + Faults(ffault, rfault) <= MaxEnvEvents
    /\ ~Active("file") => ffault = "none"
    /\ ~Active("redis") => rfault = "none"

InitStores ==
    /\ file = [n \in Ids |-> NoFile]
    /\ redis = [k \in RedisKeys |->
                  IF k = <<OtherRepository, 2>>
                  THEN RedisSet(model_dump(AgentState(2, 1)), ttl)
                  ELSE NoKey]
    /\ clock = 1
    /\ call = Idle
    /\ fres = NoResult
    /\ rres = NoResult
    /\ envEvents = 0
    /\ history = <<>>
    /\ verdict = NoVerdict
    /\ verdictBase = NoVerdict

\* no similarity has been asked for
NoSimilarity == [num |-> 0, den |-> 0]

InitSimilarityIdle ==
    /\ textA = <<>>
    /\ textB = <<>>
    /\ similarity = NoSimilarity
    /\ similaritySwapped = NoSimilarity

\* no outcome has been determined
NoOutcome == [kind |-> "init"]

\* {}: a dict without keys
EmptyDict == <<>>

CleanArgs ==
    [categorized_failures |-> EmptyDict, requirements_fulfilled |-> EmptyDict,
     diff_analysis |-> EmptyDict, other_diff_analysis |-> EmptyDict]

InitDecideIdle ==
    /\ decideArgs = CleanArgs
    /\ outcome = NoOutcome
    /\ outcomeOther = NoOutcome

\* no run of the code agent yet: no pull request for the issue
NoAttempt ==
    [kind |-> "init", command |-> "", force |-> FALSE, current_iteration |-> 0,
     allowed |-> FALSE, completed |-> FALSE, before |-> NoFile, after |-> NoFile]

InitGateIdle ==
    /\ prOpen = FALSE
    /\ prLabels = {}
    /\ attempt = NoAttempt
    /\ runsCompleted = 0
    /\ forceUsed = FALSE

\* no review asked for
NoReviewCall == [kind |-> "init"]
NoReviewResult == [kind |-> "init"]

InitReviewIdle ==
    /\ reviewCall = NoReviewCall
    /\ posted = <<>>
    /\ reviewResult = NoReviewResult

\* no process is inside update_state, and run alone each process has so
\* far seen the stores as they are
ProcIdle == [pc |-> "idle", ops |-> 0, ok |-> FALSE, state |-> NullState,
             soloOk |-> FALSE, soloState |-> NullState]

InitConcurrentIdle ==
    /\ procs = [p \in Ids |-> ProcIdle]
    /\ solo = [p \in Ids |-> [file |-> file, redis |-> redis]]

Init == InitStores /\ InitGateIdle /\ InitReviewIdle /\ InitConcurrentIdle /\ InitSimilarityIdle /\ InitDecideIdle /\ backend \in {"file", "redis"}

InitLockstep == InitStores /\ InitGateIdle /\ InitReviewIdle /\ InitConcurrentIdle /\ InitSimilarityIdle /\ InitDecideIdle /\ backend = "both"

\* what each store does with one call: [store, res]
OnFile(done) ==
    /\ file' = IF Active("file") THEN done.store ELSE file
    /\ fres' = IF Active("file") THEN done.res ELSE NoResult

OnRedis(done) ==
    /\ redis' = IF Active("redis") THEN done.store ELSE redis
    /\ rres' = IF Active("redis") THEN done.res ELSE NoResult

Get(n) ==
    /\ call = Idle
    /\ call' = Call("get", n, <<>>, NullState, "none", "none")
    /\ OnFile([store |-> file, res |-> load_state(file, n)])
    /\ OnRedis([store |-> redis, res |-> get_state(redis, n)])
    /\ UNCHANGED <<outsideStore, clock, backend, envEvents>>

Save(state, ffault, rfault) ==
    /\ call = Idle
    /\ FaultsAllowed(ffault, rfault)
    /\ call' = Call("save", state.issue_number, <<>>, state, ffault, rfault)
    /\ OnFile(FileSaveState(file, state, clock, ffault))
    /\ OnRedis(RedisSaveState(redis, state, clock, rfault))
    /\ envEvents' = envEvents + Faults(ffault, rfault)
    /\ UNCHANGED <<outsideStore, clock, backend>>

Update(n, updates, ffault, rfault) ==
    /\ call = Idle
    /\ FaultsAllowed(ffault, rfault)
    /\ call' = Call("update", n, updates, NullState, ffault, rfault)
    /\ OnFile(FileUpdateState(file, n, updates, clock, ffault))
    /\ OnRedis(BaseUpdateState(redis, n, updates, clock, rfault))
    /\ envEvents' = envEvents + Faults(ffault, rfault)
    /\ UNCHANGED <<outsideStore, clock, backend>>

Delete(n) ==
    /\ call = Idle
    /\ call' = Call("delete", n, <<>>, NullState, "none", "none")
    /\ OnFile(FileDeleteState(file, n))
    /\ OnRedis(RedisDeleteState(redis, n))
    /\ UNCHANGED <<outsideStore, clock, backend, envEvents>>

ListIds(globbed, keys) ==
    /\ call = Idle
    /\ call' = Call("list_ids", 0, <<>>, NullState, "none", "none")
    /\ OnFile([store |-> file, res |-> list_all_states(globbed)])
    /\ OnRedis([store |-> redis, res |-> list_active_issues(keys)])
    /\ UNCHANGED <<outsideStore, clock, backend, envEvents>>

\* time passes
Tick ==
    /\ call = Idle
    /\ clock < MaxClock
    /\ clock' = clock + 1
    /\ UNCHANGED <<outsideStore, file, redis, backend, call, fres, rres, envEvents>>

\* the time-to-live of a key runs out with no write in between
Expire(n) ==
    /\ call = Idle
    /\ envEvents < MaxEnvEvents
    /\ redis[get_key(n)].exists
    /\ redis[get_key(n)].ex > 0
    /\ redis' = [redis EXCEPT ![get_key(n)] = NoKey]
    /\ envEvents' = envEvents + 1
    /\ UNCHANGED <<outsideStore, file, clock, backend, call, fres, rres>>

\* the caller has seen the answer and goes on
Return ==
    /\ call # Idle
    /\ call' = Idle
    /\ fres' = NoResult
    /\ rres' = NoResult
    /\ UNCHANGED <<outsideStore, file, redis, clock, backend, envEvents>>

Next ==
    \/ \E n \in Ids : Get(n)
    \/ \E state \in SaveArgs, ffault \in FileFaults, rfault \in RedisFaults :
          Save(state, ffault, rfault)
    \/ \E n \in Ids, updates \in UpdateArgs, ffault \in FileFaults, rfault \in RedisFaults :
          Update(n, updates, ffault, rfault)
    \/ \E n \in Ids : Delete(n)
    \/ \E globbed \in Enumerations(FileNamesOf(file)),
          keys \in Enumerations(KeysMatching(redis, repository)) :
          ListIds(globbed, keys)
    \/ Tick
    \/ \E n \in Ids : Expire(n)
    \/ Return

Spec == Init /\ [][Next]_vars

\* the same calls on both stores, one keyword argument at a time, with no
\* persistence fault and no expiry
NextLockstep ==
    \/ \E n \in Ids : Get(n)
    \/ \E state \in SaveArgs : Save(state, "none", "none")
    \/ \E n \in Ids, updates \in {u \in UpdateArgs : Len(u) <= 1} :
          Update(n, updates, "none", "none")
    \/ \E n \in Ids : Delete(n)
    \/ \E globbed \in Enumerations(FileNamesOf(file)),
          keys \in Enumerations(KeysMatching(redis, repository)) :
          ListIds(globbed, keys)
    \/ Return

SpecLockstep == InitLockstep /\ [][NextLockstep]_vars

(***************************************************************************)
(* The detector run on the record of one work item as its reviews come in. *)
(***************************************************************************)
IssueAB == <<"a", "b">>
IssueSpaced == <<"A", " ", " ", "b">>
IssueXY == <<"x", "y">>
IssueC == <<"c">>

IssueEmpty == <<>>

\* a snapshot that lacks both issue lists
SnapNoLists == [quality_score |-> 7, timestamp |-> 1]

\* a snapshot whose blocking_issues is null
SnapNullList ==
    [blocking_issues |-> <<>>, non_blocking_issues |-> <<IssueAB>>,
     quality_score |-> 7, timestamp |-> 1, nulls |-> {"blocking_issues"}]

\* the snapshots a review can leave behind
ReviewArgs ==
    { Snap(<<>>, <<>>),
      Snap(<<IssueAB>>, <<>>),
      Snap(<<IssueAB>>, <<IssueC>>),
      Snap(<<IssueSpaced>>, <<>>),
      Snap(<<>>, <<IssueXY>>),
      Snap(<<IssueEmpty>>, <<>>),
      SnapNoLists,
      SnapNullList }

\* the record whose review_history is history
Reviewed == [AgentState(1, 1) EXCEPT !.review_history = history]

\* a review leaves its snapshot at the end of review_history
Review(snap) ==
    /\ Len(history) < MaxHistory
    /\ history' = Append(history, snap)
    /\ verdict' = NoVerdict
    /\ verdictBase' = NoVerdict
    /\ UNCHANGED outsideDetect

\* detect_stuck_loop(state) of both managers on the same record
DetectStuck ==
    /\ verdict = NoVerdict
    /\ verdict' = detect_stuck_loop(Reviewed)
    /\ verdictBase' = BaseDetectStuckLoop(Reviewed)
    /\ UNCHANGED <<history, outsideDetect>>

InitDetect == InitStores /\ InitGateIdle /\ InitReviewIdle /\ InitConcurrentIdle /\ InitSimilarityIdle /\ InitDecideIdle /\ backend = "file"

NextDetect ==
    \/ \E snap \in ReviewArgs : Review(snap)
    \/ DetectStuck

SpecDetect == InitDetect /\ [][NextDetect]_vars

(***************************************************************************)
(* _calculate_similarity applied to a pair of texts, in both orders.       *)
(***************************************************************************)
Characters == {"a", "B", " "}

Texts == UNION {[1..n -> Characters] : n \in 0..MaxTextLen}

CalculateSimilarity ==
    /\ similarity = NoSimilarity
    /\ similarity' = calculate_similarity(textA, textB)
    /\ similaritySwapped' = calculate_similarity(textB, textA)
    /\ UNCHANGED <<textA, textB, outsideSimilarity>>

InitSimilarity ==
    /\ InitStores
    /\ InitGateIdle
    /\ InitReviewIdle
    /\ InitConcurrentIdle
    /\ InitDecideIdle
    /\ backend = "file"
    /\ textA \in Texts
    /\ textB \in Texts
    /\ similarity = NoSimilarity
    /\ similaritySwapped = NoSimilarity

NextSimilarity == CalculateSimilarity

SpecSimilarity == InitSimilarity /\ [][NextSimilarity]_vars

(***************************************************************************)
(* The outcome decision applied to the findings of one review, with two    *)
(* diff analyses.                                                          *)
(***************************************************************************)
SeqsUpTo(S, n) == UNION {[1..k -> S] : k \in 0..n}

TestFinding == [test |-> "test_x"]
LintFindings == {[severity |-> "error"], [severity |-> "warning"]}
TypeFinding == [message |-> "incompatible types"]
SecurityFindings == {[severity |-> "HIGH"], [severity |-> "LOW"]}
DependencyFinding == [package |-> "pkg"]

CategorizedFailuresArgs ==
    {EmptyDict} \cup
    { [tests |-> t, lint |-> l, types |-> ty, security |-> sec, dependencies |-> d] :
        t \in SeqsUpTo({TestFinding}, MaxFindings),
        l \in SeqsUpTo(LintFindings, MaxFindings),
        ty \in SeqsUpTo({TypeFinding}, 1),
        sec \in SeqsUpTo(SecurityFindings, MaxFindings),
        d \in SeqsUpTo({DependencyFinding}, 1) }

Requirements == {"req 1", "req 2"}
RequirementsFulfilledArgs == UNION {[R -> BOOLEAN] : R \in SUBSET Requirements}

DiffAnalysisArgs ==
    { EmptyDict,
      [summary |-> "s", potential_issues |-> <<>>],
      [summary |-> "s", potential_issues |-> <<Message("Possible bug", 0, 0)>>],
      [summary |-> "s", potential_issues |-> <<Message("Possible bug", 0, 0),
                                               Message("Unused import", 0, 0)>>] }

OutcomesWith(diff_analysis) ==
    [kind |-> "outcome",
     orchestrator |-> OrchestratorDetermineOutcome(decideArgs.categorized_failures,
                          decideArgs.requirements_fulfilled, diff_analysis),
     reviewer |-> determine_outcome(decideArgs.categorized_failures,
                          decideArgs.requirements_fulfilled, diff_analysis)]

DetermineOutcome ==
    /\ outcome = NoOutcome
    /\ outcome' = OutcomesWith(decideArgs.diff_analysis)
    /\ outcomeOther' = OutcomesWith(decideArgs.other_diff_analysis)
    /\ UNCHANGED <<decideArgs, outsideDecide>>

InitDecide ==
    /\ InitStores
    /\ InitGateIdle
    /\ InitReviewIdle
    /\ InitConcurrentIdle
    /\ InitSimilarityIdle
    /\ backend = "file"
    /\ decideArgs \in [categorized_failures : CategorizedFailuresArgs,
                       requirements_fulfilled : RequirementsFulfilledArgs,
                       diff_analysis : DiffAnalysisArgs,
                       other_diff_analysis : DiffAnalysisArgs]
    /\ outcome = NoOutcome
    /\ outcomeOther = NoOutcome

NextDecide == DetermineOutcome

SpecDecide == InitDecide /\ [][NextDecide]_vars

(***************************************************************************)
(* The code agent's runs on one issue: process-issue and apply-feedback,   *)
(* each with its iteration check, its label update on the pull request and *)
(* its closing update_state on the file-backed store.                      *)
(***************************************************************************)
\* config.max_iterations
max_iterations == 5

\* the issue the runs are about and the pull request linked to it
IssueNumber == 1
PrNumber == 2

IterationLabel(n) == [name |-> "iteration", n |-> n]
InProgressLabel == [name |-> "agent:in-progress", n |-> 0]

\* no step of the agent puts a label on the issue itself
IssueLabels == {}

\* the label lists the code host may hand out for a set of labels: any label
\* may come first (the answer of get_iteration_from_labels depends on the
\* first iteration label only, so the order of the others is left fixed)
RECURSIVE SomeOrder(_)
SomeOrder(labels) ==
    IF labels = {} THEN <<>>
    ELSE LET first == CHOOSE label \in labels : TRUE
         IN  <<first>> \o SomeOrder(labels \ {first})

LabelNames(labels) ==
    IF labels = {} THEN {<<>>}
    ELSE {<<first>> \o SomeOrder(labels \ {first}) : first \in labels}

\* the first label "iteration-N" of the list gives N; 1 when there is none
RECURSIVE get_iteration_from_labels(_)
get_iteration_from_labels(labels) ==
    IF labels = <<>> THEN 1
    ELSE IF Head(labels).name = "iteration" THEN Head(labels).n
    ELSE get_iteration_from_labels(Tail(labels))

\* a gate that compares with > instead of >=
IterationLimitExceeded(current_iteration, force) ==
    current_iteration > max_iterations /\ ~force

\* if current_iteration >= config.max_iterations and not force: sys.exit(1)
IterationLimitReached(current_iteration, force) ==
    current_iteration >= max_iterations /\ ~force

\* new_labels = set(current) | labels_to_add - labels_to_remove
update_issue_labels(current_labels, labels_to_add, labels_to_remove) ==
    (current_labels \cup labels_to_add) \ labels_to_remove

\* state_manager.update_state(issue_number, pr_number=..., iteration=...,
\* status="in_progress")
FinalUpdate(f, pr_number, next_iteration, now) ==
    FileUpdateState(f, IssueNumber,
        << [key |-> "pr_number", value |-> pr_number],
           [key |-> "iteration", value |-> next_iteration],
           [key |-> "status", value |-> "in_progress"] >>, now, "none")

\* where a run that was let through ends: at its end, with an exception
\* before it touches the pull request, or with one after the label update
\* and before update_state
AbortPoints == {"none", "before_labels", "before_update_state"}

\* a run, with the item's file as it was before the run and as the run left it
Attempt(command, force, current_iteration, allowed, completed, after) ==
    [kind |-> "run", command |-> command, force |-> force,
     current_iteration |-> current_iteration, allowed |-> allowed,
     completed |-> completed, before |-> file[IssueNumber], after |-> after[IssueNumber]]

\* what follows the iteration check in both commands
RunFrom(command, force, current_iteration, labels_to_add, abort) ==
    LET next_iteration == current_iteration + 1 IN
    IF IterationLimitReached(current_iteration, force)
    THEN /\ attempt' = Attempt(command, force, current_iteration, FALSE, FALSE, file)
         /\ forceUsed' = (forceUsed \/ force)
         /\ UNCHANGED <<file, prOpen, prLabels, runsCompleted>>
    ELSE /\ next_iteration <= MaxIteration
         /\ abort = "none" => runsCompleted < MaxCompleted
         /\ forceUsed' = (forceUsed \/ force)
         /\ runsCompleted' = IF abort = "none" THEN runsCompleted + 1 ELSE runsCompleted
         /\ IF abort = "before_labels" THEN UNCHANGED <<prOpen, prLabels>>
            ELSE /\ prOpen' = TRUE
                 /\ prLabels' = update_issue_labels(prLabels,
                                    {IterationLabel(next_iteration)} \cup labels_to_add,
                                    IF prOpen THEN {IterationLabel(current_iteration)} ELSE {})
         /\ IF abort = "none"
            THEN file' = FinalUpdate(file, PrNumber, next_iteration, clock).store
            ELSE UNCHANGED file
         /\ attempt' = Attempt(command, force, current_iteration, TRUE, abort = "none", file')

\* process-issue: the iteration is read from the labels of the issue
ProcessIssue(force, label_names, abort) ==
    /\ RunFrom("process_issue", force, get_iteration_from_labels(label_names),
               {InProgressLabel}, abort)
    /\ UNCHANGED outsideGate

\* apply-feedback: the iteration is read from the labels of the pull request
ApplyFeedback(force, label_names, abort) ==
    /\ prOpen
    /\ RunFrom("apply_feedback", force, get_iteration_from_labels(label_names), {}, abort)
    /\ UNCHANGED outsideGate

\* an update of the item's status made from outside the two commands: no
\* code under src/ sets a status other than "in_progress"
SetStatus(status) ==
    /\ file' = FileUpdateState(file, IssueNumber, <<[key |-> "status", value |-> status]>>,
                               clock, "none").store
    /\ file' # file
    /\ UNCHANGED <<gateVars, outsideGate>>

InitGate ==
    /\ InitStores
    /\ InitGateIdle
    /\ InitReviewIdle
    /\ InitConcurrentIdle
    /\ InitSimilarityIdle
    /\ InitDecideIdle
    /\ backend = "file"

NextGate ==
    \/ \E force \in BOOLEAN, label_names \in LabelNames(IssueLabels), abort \in AbortPoints :
          ProcessIssue(force, label_names, abort)
    \/ \E force \in BOOLEAN, label_names \in LabelNames(prLabels), abort \in AbortPoints :
          ApplyFeedback(force, label_names, abort)
    \/ \E status \in {"stuck", "completed", "failed"} : SetStatus(status)

SpecGate == InitGate /\ [][NextGate]_vars

(***************************************************************************)
(* The reports of the CI tools, as parse_ci_artifacts reads them and       *)
(* categorize_failures sorts them.  A code such as E501 is the sequence of *)
(* its characters.                                                         *)
(***************************************************************************)
\* a report file that does not exist
Missing == [missing |-> TRUE]

\* artifact_dir is None or not a directory
NoArtifacts == [artifact_dir |-> FALSE]

\* d.get(key, default)
GetOr(d, key, default) == IF key \in DOMAIN d THEN d[key] ELSE default

\* code.startswith(prefix)
StartsWith(code, prefix) ==
    Len(code) >= Len(prefix) /\ SubSeq(code, 1, Len(prefix)) = prefix

IsFailedTest(test) == GetOr(test, "outcome", "") \in {"failed", "error"}

_parse_pytest(report) ==
    IF report = Missing THEN [status |-> "unknown", failures |-> <<>>]
    ELSE LET failed == SelectSeq(report.tests, IsFailedTest) IN
         [status |-> IF report.failed = 0 THEN "success" ELSE "failure",
          failures |-> [i \in DOMAIN failed |-> [test_name |-> failed[i].nodeid]]]

_parse_ruff(report) ==
    IF report = Missing THEN [status |-> "unknown", error_count |-> 0, errors |-> <<>>]
    ELSE LET data == report.violations
             errors == [i \in DOMAIN data |->
                           [code |-> GetOr(data[i], "code", <<>>),
                            severity |-> IF StartsWith(GetOr(data[i], "code", <<>>), <<"E">>)
                                         THEN "error" ELSE "warning"]]
         IN  [status |-> IF Len(errors) = 0 THEN "success" ELSE "failure",
              error_count |-> Len(errors), errors |-> errors]

_parse_mypy(report) ==
    IF report = Missing THEN [status |-> "unknown", error_count |-> 0, errors |-> <<>>]
    ELSE LET lines == report.lines
             errors == [i \in DOMAIN lines |->
                           [message |-> lines[i].message,
                            severity |-> GetOr(lines[i], "severity", "error")]]
             error_count == CountSeverity(errors, "error")
         IN  [status |-> IF error_count = 0 THEN "success" ELSE "failure",
              error_count |-> error_count, errors |-> errors]

_parse_bandit(report) ==
    IF report = Missing THEN [status |-> "unknown", issues |-> <<>>]
    ELSE LET results == report.results
             issues == [i \in DOMAIN results |->
                           [test_id |-> results[i].test_id,
                            severity |-> GetOr(results[i], "issue_severity", "MEDIUM")]]
         IN  [status |-> IF CountSeverity(issues, "HIGH") > 0 THEN "failure" ELSE "success",
              issues |-> issues]

_parse_pip_audit(report) ==
    IF report = Missing THEN [status |-> "unknown", vulnerabilities |-> <<>>]
    ELSE [status |-> IF Len(report.vulns) > 0 THEN "failure" ELSE "success",
          vulnerabilities |-> report.vulns]

parse_ci_artifacts(artifacts) ==
    [pytest |-> _parse_pytest(artifacts.pytest), ruff |-> _parse_ruff(artifacts.ruff),
     mypy |-> _parse_mypy(artifacts.mypy), bandit |-> _parse_bandit(artifacts.bandit),
     pip_audit |-> _parse_pip_audit(artifacts.pip_audit)]

\* the entries of a tool that categorize_failures passes on: all of them
\* when the tool's status is "failure", none otherwise
OfFailure(results, key) == IF results.status = "failure" THEN results[key] ELSE <<>>

\* a lint entry that keeps the severity the parser gave it
LintEntryWithSeverity(error) == [code |-> error.code, severity |-> error.severity]

\* the lint entry categorize_failures builds: file, line, column, code, message
LintEntry(error) == [code |-> error.code]

categorize_failures(ci_results) ==
    LET tests == OfFailure(ci_results.pytest, "failures")
        lint == OfFailure(ci_results.ruff, "errors")
        types == OfFailure(ci_results.mypy, "errors")
        security == OfFailure(ci_results.bandit, "issues")
        dependencies == OfFailure(ci_results.pip_audit, "vulnerabilities")
    IN  [tests |-> tests,
         lint |-> [i \in DOMAIN lint |-> LintEntry(lint[i])],
         types |-> [i \in DOMAIN types |-> [message |-> types[i].message]],
         security |-> [i \in DOMAIN security |->
                          [test_id |-> security[i].test_id, severity |-> security[i].severity]],
         dependencies |-> dependencies]

\* what analyze_pull_request hands to _determine_outcome: no findings at
\* all without an artifact directory
CategorizedFrom(artifacts) ==
    IF artifacts = NoArtifacts THEN EmptyDict
    ELSE categorize_failures(parse_ci_artifacts(artifacts))

(***************************************************************************)
(* One review of a pull request: analysis, the check for a failed          *)
(* analysis, posting, and the ReviewResult handed back.                    *)
(***************************************************************************)
\* None of an Optional[str] / Optional[ReviewOutput] field
NoneValue == [none |-> TRUE]

ReviewOutput(approve, blocking_issues, non_blocking_issues, overall_quality_score) ==
    [approve |-> approve, blocking_issues |-> blocking_issues,
     non_blocking_issues |-> non_blocking_issues,
     overall_quality_score |-> overall_quality_score]

\* the review that analyze_pull_request returns when a step of it raised
FailureReview ==
    ReviewOutput(FALSE, <<Message("Automated review encountered an error", 0, 0)>>, <<>>, 0)

\* analyze_pull_request: the outcome of _determine_outcome made into a
\* ReviewOutput, or the failure review when a step raised
analyze_pull_request(categorized_failures, requirements_fulfilled, diff_analysis, raised) ==
    IF raised THEN FailureReview
    ELSE LET o == OrchestratorDetermineOutcome(categorized_failures,
                      requirements_fulfilled, diff_analysis)
         IN  ReviewOutput(o.approve, o.blocking_issues, o.non_blocking_issues, o.quality_score)

\* "error" in error_msg.lower(), on the messages that can stand first
MentionsError(message) ==
    message.text \in {"Linting errors", "Type errors", "Automated review encountered an error"}

\* the check review_pull_request makes for a failed analysis
LooksFailed(review_output) ==
    /\ review_output.overall_quality_score = 0
    /\ Len(review_output.blocking_issues) > 0
    /\ MentionsError(review_output.blocking_issues[1])

\* a mapping that never answers "approve", like the event of post_review
MapToEvent(approve, blocking_issues) ==
    IF Len(blocking_issues) > 0 THEN "request_changes" ELSE "comment"

_map_approval_to_decision(approve, blocking_issues) ==
    IF Len(blocking_issues) > 0 THEN "request_changes"
    ELSE IF approve THEN "approve"
    ELSE "comment"

\* the steps of post_review that write to the pull request, in order
PostSteps == <<"dismiss_old_bot_reviews", "post_review", "post_summary_comment_idempotent">>
PostFaults == {"none"} \cup {PostSteps[i] : i \in DOMAIN PostSteps}

PostedItem(step, review) ==
    [step |-> step,
     event |-> IF step = "post_review"
               THEN (IF Len(review.blocking_issues) > 0 THEN "REQUEST_CHANGES" ELSE "COMMENT")
               ELSE "",
     review |-> IF step = "dismiss_old_bot_reviews" THEN NoneValue ELSE review]

\* post_review with the step named by fault raising: the steps before it
\* have written, the step itself and those after it have not
post_review(review, fault) ==
    LET done == IF fault = "none" THEN Len(PostSteps)
                ELSE (CHOOSE i \in DOMAIN PostSteps : PostSteps[i] = fault) - 1
    IN  [posted |-> [i \in 1..done |-> PostedItem(PostSteps[i], review)],
         raised |-> fault # "none"]

ReviewResult(success, decision, issues_count, error, review_output) ==
    [kind |-> "return", success |-> success, decision |-> decision,
     issues_count |-> issues_count, error |-> error, review_output |-> review_output]

ErrorText(text, cause) == [text |-> text, cause |-> cause]

IssuesCount(review_output) ==
    Len(review_output.blocking_issues) + Len(review_output.non_blocking_issues)

\* a result for a failed posting that drops the analysis
PostingFailedWithoutOutput(review_output, cause) ==
    ReviewResult(FALSE, "error", IssuesCount(review_output),
                 ErrorText("Analysis succeeded but posting failed", cause), NoneValue)

\* the result when post_review raised
PostingFailed(review_output, cause) ==
    ReviewResult(FALSE, "error", IssuesCount(review_output),
                 ErrorText("Analysis succeeded but posting failed", cause), review_output)

\* review_pull_request: [result, posted, posting]
review_pull_request(review_output, post, fault) ==
    IF LooksFailed(review_output)
    THEN [result |-> ReviewResult(FALSE, "None", 0, review_output.blocking_issues[1],
                                  review_output),
          posted |-> <<>>, posting |-> "not attempted"]
    ELSE IF post /\ post_review(review_output, fault).raised
    THEN [result |-> PostingFailed(review_output, fault),
          posted |-> post_review(review_output, fault).posted, posting |-> "raised"]
    ELSE [result |-> ReviewResult(TRUE,
                        _map_approval_to_decision(review_output.approve,
                                                  review_output.blocking_issues),
                        IssuesCount(review_output), NoneValue, review_output),
          posted |-> IF post THEN post_review(review_output, "none").posted ELSE <<>>,
          posting |-> IF post THEN "done" ELSE "not attempted"]

\* the reports of the reviewed pull request
PytestReports ==
    { Missing,
      [failed |-> 0, tests |-> <<[nodeid |-> "test_x", outcome |-> "passed"]>>],
      [failed |-> 1, tests |-> <<[nodeid |-> "test_x", outcome |-> "failed"]>>] }

LineTooLong == [code |-> <<"E", "5", "0", "1">>]
TrailingWhitespace == [code |-> <<"W", "2", "9", "1">>]
RuffReport(violations) == [violations |-> violations]
RuffReports ==
    { Missing, RuffReport(<<>>), RuffReport(<<LineTooLong>>),
      RuffReport(<<TrailingWhitespace>>), RuffReport(<<TrailingWhitespace, LineTooLong>>) }

MypyReport(lines) == [lines |-> lines]
MypyReports ==
    { Missing, MypyReport(<<[message |-> "incompatible types", severity |-> "error"]>>),
      MypyReport(<<[message |-> "see above", severity |-> "note"]>>) }

BanditResult(severity) == [test_id |-> "B101", issue_severity |-> severity]
BanditReport(results) == [results |-> results]
BanditReports ==
    { Missing, BanditReport(<<>>), BanditReport(<<BanditResult("HIGH")>>),
      BanditReport(<<BanditResult("MEDIUM")>>),
      BanditReport(<<BanditResult("LOW"), BanditResult("MEDIUM")>>),
      BanditReport(<<BanditResult("LOW"), BanditResult("HIGH")>>),
      BanditReport(<<[test_id |-> "B101"]>>) }

PipAuditReport(vulns) == [vulns |-> vulns]
PipAuditReports == { PipAuditReport(<<>>), PipAuditReport(<<DependencyFinding>>) }

ArtifactsArgs ==
    {NoArtifacts} \cup
    [pytest : PytestReports, ruff : RuffReports, mypy : MypyReports,
     bandit : BanditReports, pip_audit : PipAuditReports]

ReviewedRequirementsArgs == UNION {[R -> BOOLEAN] : R \in SUBSET {"req 1"}}

ReviewPullRequest(artifacts, requirements_fulfilled, diff_analysis, analysis_raised, post, fault) ==
    /\ reviewCall = NoReviewCall
    /\ LET review_output == analyze_pull_request(CategorizedFrom(artifacts),
                                requirements_fulfilled, diff_analysis, analysis_raised)
           done == review_pull_request(review_output, post, fault)
       IN  /\ reviewCall' = [kind |-> "call", post_review |-> post, artifacts |-> artifacts,
                             requirements_fulfilled |-> requirements_fulfilled,
                             diff_analysis |-> diff_analysis,
                             analysis |-> IF analysis_raised THEN "raised" ELSE "completed",
                             analysed |-> review_output, posting |-> done.posting]
           /\ posted' = done.posted
           /\ reviewResult' = done.result
    /\ UNCHANGED outsideReview

InitReview ==
    /\ InitStores
    /\ InitGateIdle
    /\ InitReviewIdle
    /\ InitConcurrentIdle
    /\ InitSimilarityIdle
    /\ InitDecideIdle
    /\ backend = "file"

NextReview ==
    /\ reviewCall = NoReviewCall
    /\ \E artifacts \in ArtifactsArgs,
          requirements_fulfilled \in ReviewedRequirementsArgs,
          diff_analysis \in DiffAnalysisArgs,
          analysis_raised \in BOOLEAN, post \in BOOLEAN, fault \in PostFaults :
           ReviewPullRequest(artifacts, requirements_fulfilled, diff_analysis,
                             analysis_raised, post, fault)

SpecReview == InitReview /\ [][NextReview]_vars

(***************************************************************************)
(* update_state calls made by two processes at once, process p on item p.  *)
(* A call reads the record, changes its local copy and writes it back: two *)
(* steps, between which the other process may run.  Next to the stores,    *)
(* every process keeps the stores it would have left had it run alone.     *)
(***************************************************************************)
\* load_state / get_state of the store in use
LoadFrom(f, r, n) == IF backend = "file" THEN load_state(f, n) ELSE get_state(r, n)

\* the first half of update_state: the record loaded or made, with the
\* updates applied to it; ok is FALSE when the call has raised by then
Loaded(f, r, n, updates, now) ==
    LET loaded == LoadFrom(f, r, n) IN
    IF loaded.kind = "raise" THEN [ok |-> FALSE, state |-> NullState]
    ELSE ApplyUpdates(IF loaded.kind = "none" THEN AgentState(n, now) ELSE loaded.state,
                      updates)

\* the second half: save_state of the local copy
SavedFile(f, ok, state, now) ==
    IF ok /\ backend = "file" THEN FileSaveState(f, state, now, "none").store ELSE f

SavedRedis(r, ok, state, now) ==
    IF ok /\ backend = "redis" THEN RedisSaveState(r, state, now, "none").store ELSE r

\* process p enters update_state(p, **updates) and reads
UpdateLoad(p, updates) ==
    /\ procs[p].pc = "idle"
    /\ procs[p].ops < MaxOps
    /\ LET real == Loaded(file, redis, p, updates, clock)
           alone == Loaded(solo[p].file, solo[p].redis, p, updates, clock)
       IN  procs' = [procs EXCEPT ![p] =
                        [pc |-> "loaded", ops |-> procs[p].ops + 1,
                         ok |-> real.ok, state |-> real.state,
                         soloOk |-> alone.ok, soloState |-> alone.state]]
    /\ UNCHANGED <<file, redis, solo, outsideConcurrent>>

\* process p writes its local copy back and leaves update_state
UpdateSave(p) ==
    /\ procs[p].pc = "loaded"
    /\ file' = SavedFile(file, procs[p].ok, procs[p].state, clock)
    /\ redis' = SavedRedis(redis, procs[p].ok, procs[p].state, clock)
    /\ solo' = [solo EXCEPT ![p] =
                  [file |-> SavedFile(solo[p].file, procs[p].soloOk, procs[p].soloState, clock),
                   redis |-> SavedRedis(solo[p].redis, procs[p].soloOk,
                                        procs[p].soloState, clock)]]
    /\ procs' = [procs EXCEPT ![p].pc = "idle"]
    /\ UNCHANGED outsideConcurrent

InitConcurrent ==
    /\ InitStores
    /\ InitGateIdle
    /\ InitReviewIdle
    /\ InitConcurrentIdle
    /\ InitSimilarityIdle
    /\ InitDecideIdle
    /\ backend \in {"file", "redis"}

NextConcurrent ==
    \/ \E p \in Ids, updates \in {u \in UpdateArgs : Len(u) <= 1} : UpdateLoad(p, updates)
    \/ \E p \in Ids : UpdateSave(p)

SpecConcurrent == InitConcurrent /\ [][NextConcurrent]_vars

TypeOK ==
    /\ clock \in 1..MaxClock
    /\ envEvents \in 0..MaxEnvEvents
    /\ DOMAIN file = Ids
    /\ DOMAIN redis = RedisKeys
    /\ backend \in {"file", "redis", "both"}
    /\ Len(history) <= MaxHistory
    /\ verdict.kind \in {"init", "return"}
    /\ verdictBase.kind \in {"init", "return", "raise"}
    /\ prOpen \in BOOLEAN
    /\ \A label \in prLabels : label.n \in 0..MaxIteration
    /\ attempt.kind \in {"init", "run"}
    /\ reviewCall.kind \in {"init", "call"}
    /\ Len(posted) <= Len(PostSteps)
    /\ reviewResult.kind \in {"init", "return"}
    /\ \A p \in Ids : procs[p].pc \in {"idle", "loaded"} /\ procs[p].ops \in 0..MaxOps
    /\ DOMAIN solo = Ids

(***************************************************************************)
(* Properties of the state store.                                          *)
(***************************************************************************)
HasInvalidName(updates) == \E i \in DOMAIN updates : updates[i].key \notin FieldNames

\* persisted data that does not parse into an AgentState
FileCorrupt(f, n) == f[n].exists /\ (~f[n].complete \/ ~Validates(f[n].doc))
KeyCorrupt(r, n) == r[get_key(n)].exists /\ ~Validates(r[get_key(n)].doc)

Named(updates, f) == \E i \in DOMAIN updates : updates[i].key = f
ValueOf(updates, f) == updates[CHOOSE i \in DOMAIN updates : updates[i].key = f].value
Field(base, updates, f) == IF Named(updates, f) THEN ValueOf(updates, f) ELSE base[f]

\* base with exactly the named fields replaced and updated_at refreshed
Replaced(base, updates, now) ==
    [issue_number    |-> Field(base, updates, "issue_number"),
     pr_number       |-> Field(base, updates, "pr_number"),
     iteration       |-> Field(base, updates, "iteration"),
     status          |-> Field(base, updates, "status"),
     errors          |-> Field(base, updates, "errors"),
     fixes_attempted |-> Field(base, updates, "fixes_attempted"),
     review_history  |-> Field(base, updates, "review_history"),
     started_at      |-> Field(base, updates, "started_at"),
     updated_at      |-> now,
     completed_at    |-> Field(base, updates, "completed_at"),
     metadata        |-> Field(base, updates, "metadata")]

\* C2: an update with recognised names only returns, and persists under id, the
\* previous record of id (a fresh pending record with iteration 1 when there was
\* none) with exactly the named fields replaced and updated_at refreshed, and
\* leaves the persisted data of every other id alone.
C2_UpdateReplacesNamedFieldsOnly ==
    [][(call'.op = "update" /\ ~HasInvalidName(call'.updates)) =>
          LET n == call'.id
              fbase == IF file[n].exists THEN ParseAgentState(file[n].doc)
                       ELSE AgentState(n, clock)
              rbase == IF redis[get_key(n)].exists THEN ParseAgentState(redis[get_key(n)].doc)
                       ELSE AgentState(n, clock)
              fwant == Replaced(fbase, call'.updates, clock)
              rwant == Replaced(rbase, call'.updates, clock)
          IN  /\ (Active("file") /\ fres'.kind = "state") =>
                    /\ fres'.state = fwant
                    /\ file'[n] = FullFile(model_dump(fwant))
                    /\ \A m \in Ids \ {n} : file'[m] = file[m]
              /\ (Active("redis") /\ rres'.kind = "state" /\ ~KeyCorrupt(redis, n)) =>
                    /\ rres'.state = rwant
                    /\ redis'[get_key(n)].doc = model_dump(rwant)
                    /\ \A m \in Ids \ {n} : redis'[get_key(m)] = redis[get_key(m)]]_vars

\* C3: get on persisted data that does not parse raises, in both stores.
C3_CorruptReadRaises ==
    call.op = "get" =>
        /\ (Active("file") /\ FileCorrupt(file, call.id)) => fres.kind = "raise"
        /\ (Active("redis") /\ KeyCorrupt(redis, call.id)) => rres.kind = "raise"

\* C4: a save, or the save step of an update, that fails leaves the persisted
\* data as it was, and no store ever holds a partly written record.
C4_FailedSaveKeepsPriorRecord ==
    [][/\ (call'.op \in {"save", "update"} /\ fres'.kind = "raise") => file' = file
       /\ (call'.op \in {"save", "update"} /\ rres'.kind = "raise") => redis' = redis
       /\ \A n \in Ids : file'[n].exists => file'[n].complete]_vars

Ascending(seq) == \A i \in 1..(Len(seq) - 1) : seq[i] < seq[i + 1]
ListsExactly(seq, S) == Ascending(seq) /\ {seq[i] : i \in DOMAIN seq} = S

\* C5: list_ids answers exactly the ids that have persisted data (in the
\* manager's own repository for the shared store), each once, ascending.
C5_ListIdsSortedExact ==
    call.op = "list_ids" =>
        /\ Active("file") =>
              fres.kind = "ids" /\ ListsExactly(fres.ids, {n \in Ids : file[n].exists})
        /\ Active("redis") =>
              rres.kind = "ids"
              /\ ListsExactly(rres.ids, {n \in Ids : redis[<<repository, n>>].exists})

\* both ids listed while another repository holds a key of its own
C5_Witness ==
    /\ call.op = "list_ids"
    /\ Active("redis")
    /\ rres.ids = <<1, 2>>
    /\ redis[<<OtherRepository, 2>>].exists

\* C6: driven by the same calls, the two stores give the same answers.
C6_BackendsAgree == fres = rres

\* C7: once get answers a record for an id, it goes on doing so until
\* delete is called for that id: no other call (carried out without a
\* persistence fault) and no passage of time takes the record away.
C7_RecordStaysUntilDelete ==
    [][\A n \in Ids :
          (~(call'.op = "delete" /\ call'.id = n)
              /\ call'.ffault = "none" /\ call'.rfault = "none") =>
              /\ (Active("file") /\ load_state(file, n).kind = "state")
                    => load_state(file', n).kind = "state"
              /\ (Active("redis") /\ get_state(redis, n).kind = "state")
                    => get_state(redis', n).kind = "state"]_vars

\* C8: every persisted record has iteration >= 1.
C8_IterationAtLeastOne ==
    \A n \in Ids :
        /\ (file[n].exists /\ file[n].complete) => file[n].doc.iteration >= 1
        /\ redis[get_key(n)].exists => redis[get_key(n)].doc.iteration >= 1

FileHistoryLen(f, n) ==
    IF f[n].exists /\ f[n].complete THEN Len(f[n].doc.review_history) ELSE 0
KeyHistoryLen(r, n) ==
    IF r[get_key(n)].exists THEN Len(r[get_key(n)].doc.review_history) ELSE 0

\* C9: no call on an item other than delete, carried out without a
\* persistence fault, shortens the persisted review_history of the item.
C9_ReviewHistoryNeverShrinks ==
    [][\A n \in Ids :
          (call'.op \in {"get", "save", "update"} /\ call'.id = n
              /\ call'.ffault = "none" /\ call'.rfault = "none") =>
              /\ FileHistoryLen(file', n) >= FileHistoryLen(file, n)
              /\ KeyHistoryLen(redis', n) >= KeyHistoryLen(redis, n)]_vars

\* C10: with fewer than three snapshots in review_history the detector
\* answers (false, ""), whatever the snapshots hold.
C10_FewSnapshotsNotStuck ==
    (verdict # NoVerdict /\ Len(history) < 3)
        => (verdict = Verdict(FALSE, "") /\ verdictBase = Verdict(FALSE, ""))

\* the detector has answered for two snapshots that carry the same issue
C10_Witness ==
    /\ verdict # NoVerdict
    /\ Len(history) = 2
    /\ history[1] = history[2]
    /\ Len(DictGet(history[1], "blocking_issues")) > 0

(***************************************************************************)
(* Properties of the detector and of the similarity of texts.              *)
(***************************************************************************)
\* the last three snapshots and their non-empty summaries, in order
LastThree == SubSeq(history, Len(history) - 2, Len(history))

SummaryOf(review) ==
    Join(<<" ">>, DictGet(review, "blocking_issues") \o DictGet(review, "non_blocking_issues"))

NonEmptySummaries ==
    SelectSeq([i \in 1..3 |-> SummaryOf(LastThree[i])], LAMBDA t : Len(t) > 0)

\* the fraction is at least 0.7
AtLeastSevenTenths(f) == 10 * f.num >= 7 * f.den

\* at least 2 consecutive pairs of S are similar, or S has 3 elements and the
\* mean of similarity(S[1], S[2]) and similarity(S[1], S[3]) is at least 0.7
StuckByRule(S) ==
    \/ Cardinality({i \in 1..(Len(S) - 1) :
            AtLeastSevenTenths(calculate_similarity(S[i], S[i + 1]))}) >= 2
    \/ /\ Len(S) = 3
       /\ LET x == calculate_similarity(S[1], S[2])
              y == calculate_similarity(S[1], S[3])
          IN  AtLeastSevenTenths([num |-> x.num * y.den + y.num * x.den,
                                  den |-> 2 * x.den * y.den])

\* C11: for a record with at least 3 snapshots (each with issue lists or
\* without them, none null), detect_stuck_loop of the file-backed manager
\* answers (true, non-empty reason) exactly when the rule on the non-empty
\* summaries of the last 3 snapshots says stuck, and (false, "") otherwise.
C11_DetectFollowsRule ==
    (verdict # NoVerdict /\ Len(history) >= 3 /\ ~RaisesInLoop(LastThree)) =>
        IF StuckByRule(NonEmptySummaries)
        THEN verdict.kind = "return" /\ verdict.stuck /\ verdict.reason # ""
        ELSE verdict = Verdict(FALSE, "")

\* three snapshots with the same blocking issue text are reported stuck
C11_Witness ==
    /\ Len(history) = 3
    /\ \A i \in 1..3 : history[i] = Snap(<<IssueAB>>, <<>>)
    /\ verdict.kind = "return" /\ verdict.stuck

\* C12: the detector never raises, in either implementation: whatever the
\* snapshots hold it answers, and a failure while reading them (a null issue
\* list) gives (false, "").
C12_DetectNeverRaises ==
    verdict # NoVerdict =>
        /\ verdict.kind = "return"
        /\ verdictBase.kind = "return"
        /\ (Len(history) >= 3 /\ RaisesInLoop(LastThree)) =>
              (verdict = Verdict(FALSE, "") /\ verdictBase = Verdict(FALSE, ""))

\* a fraction between 0 and 1
InUnitInterval(f) == f.den > 0 /\ 0 <= f.num /\ f.num <= f.den
IsZero(f) == f.den > 0 /\ f.num = 0
IsOne(f) == f.den > 0 /\ f.num = f.den

\* C13: the similarity of two texts lies in [0, 1]; it is 0 when either text
\* is empty; the similarity of a non-empty text to itself is 1, also for a
\* text of whitespace only.
C13_SimilarityBounds ==
    similarity # NoSimilarity =>
        /\ InUnitInterval(similarity)
        /\ (Len(textA) = 0 \/ Len(textB) = 0) => IsZero(similarity)
        /\ (Len(textA) > 0 /\ textA = textB) => IsOne(similarity)

\* the similarity of a whitespace-only text to itself has been computed
C13_Witness ==
    /\ similarity # NoSimilarity
    /\ textA = <<" ", " ">>
    /\ textB = textA

\* C14: similarity(a, b) = similarity(b, a), as fractions.
C14_SimilaritySymmetric ==
    similarity # NoSimilarity =>
        similarity.num * similaritySwapped.den = similaritySwapped.num * similarity.den

(***************************************************************************)
(* Properties of the outcome decision.                                     *)
(***************************************************************************)
\* the rule table, row by row: the condition of the row, whether its entry
\* is blocking, the entries it contributes and its deduction in tenths
RuleTable(cf, reqs, diff) ==
    LET tests == DictGet(cf, "tests")
        lint == DictGet(cf, "lint")
        types == DictGet(cf, "types")
        security == DictGet(cf, "security")
        dependencies == DictGet(cf, "dependencies")
        errors == CountSeverity(lint, "error")
        high == CountSeverity(security, "HIGH")
        unfulfilled == Cardinality({r \in DOMAIN reqs : ~reqs[r]})
        potential == DictGet(diff, "potential_issues")
    IN  << [fires |-> Len(tests) > 0, blocking |-> TRUE, delta |-> 30,
            entries |-> <<Message("Tests failing", Len(tests), 0)>>],
           [fires |-> errors >= 1, blocking |-> TRUE, delta |-> 20,
            entries |-> <<Message("Linting errors", errors, 0)>>],
           [fires |-> Len(lint) > 0 /\ errors = 0, blocking |-> FALSE, delta |-> 5,
            entries |-> <<Message("Linting warnings", Len(lint), 0)>>],
           [fires |-> Len(types) > 0, blocking |-> TRUE, delta |-> 20,
            entries |-> <<Message("Type errors", Len(types), 0)>>],
           [fires |-> high >= 1, blocking |-> TRUE, delta |-> 30,
            entries |-> <<Message("High-severity security issues", high, 0)>>],
           [fires |-> Len(security) > 0 /\ high = 0, blocking |-> FALSE, delta |-> 10,
            entries |-> <<Message("Security concerns", Len(security), 0)>>],
           [fires |-> Len(dependencies) > 0, blocking |-> FALSE, delta |-> 5,
            entries |-> <<Message("Dependency vulnerabilities", Len(dependencies), 0)>>],
           [fires |-> unfulfilled > 0, blocking |-> TRUE, delta |-> 20,
            entries |-> <<Message("Requirements not met", unfulfilled,
                                  Cardinality(DOMAIN reqs))>>],
           [fires |-> Len(potential) > 0, blocking |-> FALSE, delta |-> 5,
            entries |-> potential] >>

\* the entries of the rows that fire, blocking or not, in row order
RECURSIVE EntriesOf(_, _)
EntriesOf(rows, blocking) ==
    IF Len(rows) = 0 THEN <<>>
    ELSE (IF Head(rows).fires /\ Head(rows).blocking = blocking
          THEN Head(rows).entries ELSE <<>>) \o EntriesOf(Tail(rows), blocking)

RECURSIVE Deductions(_)
Deductions(rows) ==
    IF Len(rows) = 0 THEN 0
    ELSE (IF Head(rows).fires THEN Head(rows).delta ELSE 0) + Deductions(Tail(rows))

Prescribed(cf, reqs, diff) ==
    LET rows == RuleTable(cf, reqs, diff)
        d == Deductions(rows)
    IN  [approve |-> ~\E i \in DOMAIN rows : rows[i].fires /\ rows[i].blocking,
         blocking_issues |-> EntriesOf(rows, TRUE),
         non_blocking_issues |-> EntriesOf(rows, FALSE),
         quality_score |-> IF 100 - d < 0 THEN 0 ELSE IF 100 - d > 100 THEN 100 ELSE 100 - d]

\* C15: the orchestrator's outcome is the one the rule table prescribes:
\* every row that fires contributes its entry and its deduction, entries
\* stand in row order, and the score is 10 minus the deductions, clamped
\* to [0, 10].
C15_OutcomeFollowsRuleTable ==
    outcome # NoOutcome =>
        outcome.orchestrator =
            Prescribed(decideArgs.categorized_failures,
                       decideArgs.requirements_fulfilled, decideArgs.diff_analysis)

\* 2 test failures, 1 lint error, 1 HIGH security finding and 1 of 2
\* requirements unfulfilled: 4 blocking entries and score 0.0
C15_Witness ==
    /\ outcome # NoOutcome
    /\ decideArgs.categorized_failures =
          [tests |-> <<TestFinding, TestFinding>>, lint |-> <<[severity |-> "error"]>>,
           types |-> <<>>, security |-> <<[severity |-> "HIGH"]>>, dependencies |-> <<>>]
    /\ Fulfilled(decideArgs.requirements_fulfilled) = 1
    /\ Cardinality(DOMAIN decideArgs.requirements_fulfilled) = 2
    /\ Len(outcome.orchestrator.blocking_issues) = 4
    /\ outcome.orchestrator.quality_score = 0

\* C16: in every outcome, of the orchestrator method and of the free
\* function, approve is true exactly when blocking_issues is empty.
C16_ApproveIffNoBlocking ==
    outcome # NoOutcome =>
        /\ outcome.orchestrator.approve <=> (Len(outcome.orchestrator.blocking_issues) = 0)
        /\ outcome.reviewer.approve <=> (Len(outcome.reviewer.blocking_issues) = 0)

\* an outcome with a blocking issue and one without have been determined
C16_Witness ==
    /\ outcome # NoOutcome
    /\ ~outcome.reviewer.approve
    /\ Len(outcome.orchestrator.blocking_issues) = 2
    /\ Len(outcome.orchestrator.non_blocking_issues) > 0

\* what two outcomes of calls that differ only in the diff commentary may
\* differ in: the commentary's entries at the end of non_blocking_issues and
\* a deduction of 5 tenths, taken once, floored at 0
OnlyCommentaryDiffers(a, b, pa, pb) ==
    /\ a.approve = b.approve
    /\ a.blocking_issues = b.blocking_issues
    /\ Len(a.non_blocking_issues) >= Len(pa)
    /\ LET common == SubSeq(a.non_blocking_issues, 1, Len(a.non_blocking_issues) - Len(pa))
       IN  /\ a.non_blocking_issues = common \o pa
           /\ b.non_blocking_issues = common \o pb
    /\ IF (Len(pa) = 0) = (Len(pb) = 0) THEN a.quality_score = b.quality_score
       ELSE IF Len(pa) > 0 THEN a.quality_score = Max(0, b.quality_score - 5)
       ELSE b.quality_score = Max(0, a.quality_score - 5)

\* C17: two calls that differ only in the diff commentary give the same
\* approve and the same blocking_issues; the commentary only appends its
\* entries to non_blocking_issues and lowers the score by a flat 0.5, however
\* many entries it has.
C17_DiffCommentaryNeverBlocks ==
    outcome # NoOutcome =>
        LET pa == DictGet(decideArgs.diff_analysis, "potential_issues")
            pb == DictGet(decideArgs.other_diff_analysis, "potential_issues")
        IN  /\ OnlyCommentaryDiffers(outcome.orchestrator, outcomeOther.orchestrator, pa, pb)
            /\ OnlyCommentaryDiffers(outcome.reviewer, outcomeOther.reviewer, pa, pb)

\* a call with two potential issues and one with none, on findings that block
C17_Witness ==
    /\ outcome # NoOutcome
    /\ Len(DictGet(decideArgs.diff_analysis, "potential_issues")) = 2
    /\ Len(DictGet(decideArgs.other_diff_analysis, "potential_issues")) = 0
    /\ Len(outcome.reviewer.blocking_issues) > 0
    /\ outcome.reviewer.quality_score = outcomeOther.reviewer.quality_score - 5
    /\ outcome.orchestrator.non_blocking_issues # outcomeOther.orchestrator.non_blocking_issues

(***************************************************************************)
(* Properties of the iteration check.                                      *)
(***************************************************************************)
\* the iteration of the item's persisted record; a record that does not
\* exist yet is one at iteration 1
RecordIteration(f) == IF f.exists /\ f.complete THEN f.doc.iteration ELSE 1

\* C18: a run is let through exactly when force is set or the iteration of
\* the item's record is below max_iterations, and a run that is turned away
\* has changed nothing that is persisted.
C18_GateFollowsRecord ==
    attempt.kind = "run" =>
        /\ attempt.allowed <=>
              (attempt.force \/ RecordIteration(attempt.before) < max_iterations)
        /\ ~attempt.allowed => attempt.after = attempt.before

\* the part of C18 that the code keeps: a run that is turned away leaves the
\* store and the labels as they were
GateCheckChangesNothing ==
    [][attempt' # attempt /\ ~attempt'.allowed =>
          file' = file /\ redis' = redis /\ prLabels' = prLabels]_vars

\* the gate as the code has it: on the iteration read from the labels
GateFollowsLabels ==
    attempt.kind = "run" =>
        (attempt.allowed <=> (attempt.force \/ attempt.current_iteration < max_iterations))

\* a run without force turned away at iteration 5 of 5
GateDeniesAtCeiling ==
    /\ attempt.kind = "run"
    /\ ~attempt.force
    /\ attempt.current_iteration = max_iterations
    /\ RecordIteration(attempt.before) = max_iterations
    /\ ~attempt.allowed

(***************************************************************************)
(* Properties of review_pull_request.                                      *)
(***************************************************************************)
\* C19: when the analysis has completed and posting raised, the call
\* returns (it does not raise) success = false with an error that says
\* posting failed, and the result carries the analysis output as it was.
C19_PostingFailureKeepsAnalysis ==
    (reviewCall.kind = "call" /\ reviewCall.analysis = "completed"
        /\ reviewCall.posting = "raised") =>
        /\ reviewResult.kind = "return"
        /\ ~reviewResult.success
        /\ reviewResult.error.text = "Analysis succeeded but posting failed"
        /\ reviewResult.review_output = reviewCall.analysed

\* posting raised at the summary comment, after the review went out, for an
\* analysis that found blocking issues
C19_Witness ==
    /\ reviewCall.kind = "call"
    /\ reviewCall.analysis = "completed"
    /\ reviewCall.posting = "raised"
    /\ Len(posted) = 2
    /\ Len(reviewCall.analysed.blocking_issues) > 0
    /\ reviewResult.review_output = reviewCall.analysed

\* C20: a call with post_review = false posts nothing, and every result with
\* success = true has decision request_changes when there are blocking
\* issues, else approve when approve is true, else comment, and issues_count
\* the number of blocking plus non-blocking issues.
C20_NoPostingAndDecision ==
    reviewCall.kind = "call" =>
        /\ ~reviewCall.post_review => posted = <<>>
        /\ reviewResult.success =>
              LET review == reviewResult.review_output IN
              /\ reviewResult.decision =
                    (IF Len(review.blocking_issues) > 0 THEN "request_changes"
                     ELSE IF review.approve THEN "approve" ELSE "comment")
              /\ reviewResult.issues_count =
                    Len(review.blocking_issues) + Len(review.non_blocking_issues)

\* a review without posting that approves, with non-blocking issues counted
C20_Witness ==
    /\ reviewCall.kind = "call"
    /\ ~reviewCall.post_review
    /\ posted = <<>>
    /\ reviewResult.success
    /\ reviewResult.decision = "approve"
    /\ reviewResult.issues_count = 2

(***************************************************************************)
(* Properties of the key a record is stored under.                         *)
(***************************************************************************)
\* C21: an update on an id leaves the records stored under every other id
\* as they were, whatever names and values it is given, and when it returns
\* a record, that record is the one stored under the id and carries it.
C21_UpdateKeepsToItsKey ==
    [][call = Idle /\ call'.op = "update" =>
          /\ \A m \in Ids \ {call'.id} :
                /\ file'[m] = file[m]
                /\ redis'[get_key(m)] = redis[get_key(m)]
          /\ (Active("file") /\ fres'.kind = "state") =>
                /\ file'[call'.id].exists
                /\ file'[call'.id].doc.issue_number = call'.id
          /\ (Active("redis") /\ rres'.kind = "state") =>
                /\ redis'[get_key(call'.id)].exists
                /\ redis'[get_key(call'.id)].doc.issue_number = call'.id]_vars

(***************************************************************************)
(* Properties of the runs of the code agent on one issue.                  *)
(***************************************************************************)
\* C22: a run that reaches its update_state leaves the item's persisted
\* iteration exactly 1 above what it was before the run, and a run that
\* ends earlier leaves the persisted record as it was.
C22_CompletedRunAddsOne ==
    attempt.kind = "run" =>
        IF attempt.completed
        THEN RecordIteration(attempt.after) = RecordIteration(attempt.before) + 1
        ELSE attempt.after = attempt.before

\* the part of C22 that the code keeps: a run that ends early writes nothing
AbortedRunChangesNothing ==
    (attempt.kind = "run" /\ ~attempt.completed) => attempt.after = attempt.before

\* C23: as long as no run is forced, the item's persisted iteration stays
\* at or below max_iterations, and once max_iterations - 1 runs have
\* reached their end every further run is turned away.
C23_LoopBounded ==
    ~forceUsed =>
        /\ RecordIteration(file[IssueNumber]) <= max_iterations
        /\ runsCompleted <= max_iterations - 1
        /\ (attempt.kind = "run" /\ ~attempt.completed
               /\ runsCompleted >= max_iterations - 1) => ~attempt.allowed

\* the part of C23 that the code keeps: without force the persisted
\* iteration does not pass the ceiling
UnforcedIterationBelowCeiling ==
    ~forceUsed => RecordIteration(file[IssueNumber]) <= max_iterations

TerminalStatus == {"stuck", "completed", "failed"}

RecordStatus(f) == IF f.exists /\ f.complete THEN f.doc.status ELSE "pending"

\* C24: a run without force on an item whose persisted status is stuck,
\* completed or failed does not start and leaves the record as it was.
C24_TerminalStatusStopsRuns ==
    (attempt.kind = "run" /\ ~attempt.force
        /\ RecordStatus(attempt.before) \in TerminalStatus) =>
        /\ ~attempt.allowed
        /\ attempt.after = attempt.before

(***************************************************************************)
(* Properties of what a review leaves in the state store.                  *)
(***************************************************************************)
\* C25: after a review of the item's pull request that was carried out, the
\* item's record holds, as the last entry of review_history, a snapshot of
\* the verdict (blocking and non-blocking findings, quality score), the
\* detector has been run on that record, and the record's status is stuck
\* when the detector said so.
C25_ReviewRecordedAndChecked ==
    (reviewResult.kind = "return" /\ reviewResult.success) =>
        LET f == file[IssueNumber]
            review == reviewResult.review_output
        IN  /\ f.exists /\ f.complete
            /\ Len(f.doc.review_history) > 0
            /\ LET last == f.doc.review_history[Len(f.doc.review_history)]
               IN  /\ DictGet(last, "blocking_issues") = review.blocking_issues
                   /\ DictGet(last, "non_blocking_issues") = review.non_blocking_issues
                   /\ last.quality_score = review.overall_quality_score
            /\ verdict.kind = "return"
            /\ verdict.stuck => f.doc.status = "stuck"

(***************************************************************************)
(* Properties of the detector on a window with an empty snapshot.          *)
(***************************************************************************)
\* the snapshot has no issues at all
HasNoIssues(review) ==
    Len(DictGet(review, "blocking_issues") \o DictGet(review, "non_blocking_issues")) = 0

\* exactly one of the last three snapshots has no issues at all
OneOfLastThreeEmpty ==
    /\ Len(history) >= 3
    /\ ~RaisesInLoop(LastThree)
    /\ Cardinality({i \in 1..3 : HasNoIssues(LastThree[i])}) = 1

\* the summaries of the two snapshots of the window that have issues
TwoSummaries == ErrorSummaries(LastThree)

\* C26 as stated: with exactly one of the last three snapshots empty the
\* average branch does not fire, and the pairwise branch still declares the
\* record stuck when the two summaries that remain are similar.
C26_PairwiseStillDeclaresStuck ==
    (verdict # NoVerdict /\ OneOfLastThreeEmpty) =>
        /\ verdict.reason # "Same errors repeating across all recent reviews"
        /\ AtLeastSevenTenths(calculate_similarity(TwoSummaries[1], TwoSummaries[2]))
              => verdict.stuck

\* C26 as amended: with exactly one of the last three snapshots empty
\* neither branch fires, the detector answers (false, "") whatever the
\* other two snapshots hold.
C26_OneEmptySnapshotNeverStuck ==
    (verdict # NoVerdict /\ OneOfLastThreeEmpty) => verdict = Verdict(FALSE, "")

\* an empty snapshot between two with the same issue, detector run
C26_Witness ==
    /\ Len(history) = 3
    /\ history[1] = Snap(<<IssueAB>>, <<>>)
    /\ history[2] = Snap(<<>>, <<>>)
    /\ history[3] = Snap(<<IssueAB>>, <<>>)
    /\ OneOfLastThreeEmpty
    /\ verdict = Verdict(FALSE, "")

(***************************************************************************)
(* Properties of concurrent updates of different items.                    *)
(***************************************************************************)
\* what the store in use holds under id n, in the given stores
Persisted(f, r, n) == IF backend = "file" THEN [file |-> f[n]] ELSE [redis |-> r[get_key(n)]]

\* C27: when both processes are outside update_state, the record persisted
\* for each item is the one that the updates of its own process alone would
\* have left: the updates on the other item have neither read nor written it.
C27_OtherItemsUntouched ==
    (\A p \in Ids : procs[p].pc = "idle") =>
        \A n \in Ids :
            Persisted(file, redis, n) = Persisted(solo[n].file, solo[n].redis, n)

(***************************************************************************)
(* Properties of the path from the CI reports to the review.               *)
(***************************************************************************)
\* a review whose analysis ran to its end on a directory of reports
AnalysedReports ==
    /\ reviewCall.kind = "call"
    /\ reviewCall.analysis = "completed"
    /\ reviewCall.artifacts # NoArtifacts

HasEntry(entries, text) == \E i \in DOMAIN entries : entries[i].text = text

\* C28: every lint finding handed to the decision carries the severity the
\* parser of the lint report gave it, and a lint report with at least one
\* error-severity violation yields approve = false and a blocking lint entry.
C28_LintSeverityReachesDecision ==
    (AnalysedReports /\ reviewCall.artifacts.ruff # Missing) =>
        LET parsed == _parse_ruff(reviewCall.artifacts.ruff).errors
            lint == CategorizedFrom(reviewCall.artifacts).lint
        IN  /\ Len(lint) = Len(parsed)
            /\ \A i \in DOMAIN lint :
                  "severity" \in DOMAIN lint[i] /\ lint[i].severity = parsed[i].severity
            /\ CountSeverity(parsed, "error") > 0 =>
                  /\ ~reviewCall.analysed.approve
                  /\ HasEntry(reviewCall.analysed.blocking_issues, "Linting errors")

\* the review of the same call had the security report held no finding
WithoutSecurityFindings ==
    analyze_pull_request(
        CategorizedFrom([reviewCall.artifacts EXCEPT !.bandit = BanditReport(<<>>)]),
        reviewCall.requirements_fulfilled, reviewCall.diff_analysis, FALSE)

\* C29: a security report with findings, none of them HIGH, yields a
\* non-blocking security entry that counts them and a deduction of 1.0, and
\* approve is what it would be without the findings.
C29_MinorSecurityFindingsCounted ==
    (AnalysedReports /\ reviewCall.artifacts.bandit # Missing) =>
        LET issues == _parse_bandit(reviewCall.artifacts.bandit).issues
            review == reviewCall.analysed
        IN  (Len(issues) > 0 /\ CountSeverity(issues, "HIGH") = 0) =>
               /\ \E i \in DOMAIN review.non_blocking_issues :
                     review.non_blocking_issues[i] =
                         Message("Security concerns", Len(issues), 0)
               /\ review.overall_quality_score =
                     Max(0, WithoutSecurityFindings.overall_quality_score - 10)
               /\ review.approve = WithoutSecurityFindings.approve

\* C30: a result that reports a failed analysis (success = false, the error
\* of the analysis, nothing posted) comes only from an analysis that raised;
\* the review of an analysis that completed is posted when post_review is
\* true and reported with success = true when posting succeeded.
C30_OnlyRaisedAnalysisFails ==
    reviewCall.kind = "call" =>
        /\ (~reviewResult.success /\ reviewCall.posting = "not attempted") =>
              reviewCall.analysis = "raised"
        /\ reviewCall.analysis = "completed" =>
              /\ reviewCall.post_review => reviewCall.posting # "not attempted"
              /\ reviewCall.posting = "done" =>
                    reviewResult.success /\ Len(posted) = Len(PostSteps)
              /\ ~reviewCall.post_review => reviewResult.success

\* a completed analysis with score 0.0 and blocking issues, posted and
\* reported as a success
C30_Witness ==
    /\ reviewCall.kind = "call"
    /\ reviewCall.analysis = "completed"
    /\ reviewCall.analysed.overall_quality_score = 0
    /\ Len(reviewCall.analysed.blocking_issues) > 1
    /\ reviewCall.post_review
    /\ reviewCall.posting = "done"
    /\ Len(posted) = Len(PostSteps)
    /\ reviewResult.success

====
